---- MODULE Spec2Model ----
(***************************************************************************)
(* A model of scripts/build_dataset.py of microrimba: the signal-analysis  *)
(* and tuning-inference core (window selection, autocorrelation pitch      *)
(* tracking, partial analysis, octave correction, register / EDO / JI      *)
(* inference) and the two-phase build loop that drives it.                 *)
(*                                                                         *)
(* Numbers.  Frequencies in Hz are exact rationals [n |-> num, d |-> den]. *)
(* math.log2 is modelled on 13-smooth rationals by a fixed-point table:    *)
(* a logarithm is an integer number of "units", UnitsPerOctave units to    *)
(* the octave (84 units to the cent).                                      *)
(***************************************************************************)
EXTENDS Integers, Sequences, FiniteSets, TLC

VARIABLES oc, ji, win, trk, par, edo, bld

vars == <<oc, ji, win, trk, par, edo, bld>>

\* The value of a component that a specification does not exercise.
Idle == [pc |-> "idle"]

(***************************************************************************)
(* Program constants (build_dataset.py:36-47).                             *)
(***************************************************************************)
MIN_F0_HZ == 40
MAX_F0_HZ == 2000
MAX_PEAKS == 60
SUMMARY_PEAKS == 12
PROMINENCE_DB == 15
INSTRUMENT_IDS == <<"edo5", "edo7", "edo8", "edo9", "harmonic">>

(***************************************************************************)
(* Bounds of the model.                                                    *)
(***************************************************************************)
\* Longest summary peak list handed to the Octave Corrector specification.
MaxSummaryIn == 3
\* Number of grid ratios handed to the JI specification.
MaxJIGrid == 30
\* Longest waveform of the Window Selector specification, in twentieths of a
\* second, and the largest candidate variance, in units of 0.5e-12.
MaxTwentieths == 30
MaxVariance == 4
\* Hops beyond one frame in the waveforms of the Pitch Tracker specification.
MaxExtraHops == 2
\* Longest period of the comb spectra of the Partial Analyzer specification.
MaxCombPeriod == 3
\* Highest octave_abs of the inputs of the Tuning specification.
MaxOctaveIn == 2
\* Files of the first instrument folder beyond the one every folder holds.
MaxExtraBars == 1

(***************************************************************************)
(* Arithmetic helpers.                                                     *)
(***************************************************************************)
Abs(x) == IF x < 0 THEN -x ELSE x
Min2(a, b) == IF a <= b THEN a ELSE b
Max2(a, b) == IF a >= b THEN a ELSE b

\* Python's round() of the non-negative rational a/b: to nearest, ties to even.
PyRound(a, b) ==
    LET q == a \div b
        r == a % b
    IN  IF 2 * r < b THEN q
        ELSE IF 2 * r > b THEN q + 1
        ELSE IF q % 2 = 0 THEN q ELSE q + 1

\* Rationals.
Rat(n, d) == [n |-> n, d |-> d]
RatLess(a, b) == a.n * b.d < b.n * a.d
RatLeq(a, b) == a.n * b.d <= b.n * a.d
RatEq(a, b) == a.n * b.d = b.n * a.d
RatDiv(a, b) == Rat(a.n * b.d, a.d * b.n)
RatHalf(a) == Rat(a.n, 2 * a.d)
RatDouble(a) == Rat(2 * a.n, a.d)

\* A stable sort (sorted, np.sort, np.argsort) of the sequence q, before[a, b]
\* telling that a is to come before b: an element stands behind those that
\* come before it and those it ties with that stood ahead of it.
StableSort(q, before) ==
    LET n == Len(q)
        Ahead(i) == {j \in 1..n : \/ before[q[j], q[i]]
                                  \/ ~before[q[i], q[j]] /\ j < i}
        place == [i \in 1..n |-> Cardinality(Ahead(i)) + 1]
    IN  [r \in 1..n |-> q[CHOOSE i \in 1..n : place[i] = r]]

Range(q) == {q[i] : i \in 1..Len(q)}

(***************************************************************************)
(* math.log2 in fixed point.                                               *)
(***************************************************************************)
UnitsPerOctave == 84 * 1200

\* round(UnitsPerOctave * log2(p)) for the primes up to 13.
Log2Prime(p) ==
    CASE p = 2 -> 100800
      [] p = 3 -> 159764
      [] p = 5 -> 234050
      [] p = 7 -> 282981
      [] p = 11 -> 348711
      [] p = 13 -> 373004

\* _prime_factors(n): the prime factors of n with multiplicity, ascending.
RECURSIVE PrimeFactorsFrom(_, _)
PrimeFactorsFrom(x, d) ==
    IF d * d > x THEN (IF x > 1 THEN <<x>> ELSE <<>>)
    ELSE IF x % d = 0 THEN <<d>> \o PrimeFactorsFrom(x \div d, d)
    ELSE PrimeFactorsFrom(x, d + 1)

prime_factors(n) == PrimeFactorsFrom(n, 2)

RECURSIVE SumLog2(_)
SumLog2(pf) == IF pf = <<>> THEN 0 ELSE Log2Prime(Head(pf)) + SumLog2(Tail(pf))

\* math.log2 of a 13-smooth positive integer, and of a rational of two.
Log2Int(n) == SumLog2(prime_factors(n))
Log2Rat(a) == Log2Int(a.n) - Log2Int(a.d)

(***************************************************************************)
(* Octave Corrector.                                                       *)
(***************************************************************************)
harmonic_grid_fit_scoreMutAbsolute(summary_peaks, f0_hz) ==
    IF summary_peaks = <<>> \/ f0_hz.n <= 0 THEN Rat(0, 1)
    ELSE
      LET k == Min2(SUMMARY_PEAKS, Len(summary_peaks))
          Aligned(i) ==
            LET peak_hz == summary_peaks[i]
                harmonic_idx == PyRound(peak_hz * f0_hz.d, f0_hz.n)
            IN  /\ harmonic_idx >= 1
                /\ 100 * Abs(peak_hz * f0_hz.d - harmonic_idx * f0_hz.n) <= 3 * f0_hz.n
      IN  Rat(Cardinality({i \in 1..k : Aligned(i)}), Max2(k, 1))

\* A fit score aligned / max(k, 1) is kept as that fraction.
harmonic_grid_fit_score(summary_peaks, f0_hz) ==
    IF summary_peaks = <<>> \/ f0_hz.n <= 0 THEN Rat(0, 1)
    ELSE
      LET k == Min2(SUMMARY_PEAKS, Len(summary_peaks))
          Aligned(i) ==
            LET peak_hz == summary_peaks[i]
                harmonic_idx == PyRound(peak_hz * f0_hz.d, f0_hz.n)
            IN  /\ harmonic_idx >= 1
                \* rel_err = |peak_hz - target| / target <= 0.03
                /\ 100 * Abs(peak_hz * f0_hz.d - harmonic_idx * f0_hz.n)
                     <= 3 * harmonic_idx * f0_hz.n
      IN  Rat(Cardinality({i \in 1..k : Aligned(i)}), Max2(k, 1))

InRange(cand) ==
    /\ MIN_F0_HZ * cand.d <= cand.n
    /\ cand.n <= MAX_F0_HZ * cand.d

\* One entry of `scored`: (cand, fit, cents_shift, in_range); cents_shift is
\* kept as 1200 * |log2| in units.
ScoreCandidate(cand, preliminary_f0_hz, summary_peaks) ==
    [cand |-> cand,
     fit |-> harmonic_grid_fit_score(summary_peaks, cand),
     cents_shift |-> Abs(1200 * Log2Rat(RatDiv(cand, preliminary_f0_hz))),
     in_range |-> InRange(cand)]

Candidates(f) == <<f, RatHalf(f), RatDouble(f)>>

KeyGreaterMutLargerShift(a, b) ==
    \/ RatLess(b.fit, a.fit)
    \/ /\ RatEq(a.fit, b.fit)
       /\ \/ (a.in_range /\ ~b.in_range)
          \/ /\ a.in_range = b.in_range
             /\ a.cents_shift > b.cents_shift

\* The sort key (fit, in_range, -cents_shift), compared as Python compares tuples.
KeyGreater(a, b) ==
    \/ RatLess(b.fit, a.fit)
    \/ /\ RatEq(a.fit, b.fit)
       /\ \/ (a.in_range /\ ~b.in_range)
          \/ /\ a.in_range = b.in_range
             /\ -a.cents_shift > -b.cents_shift

\* list.sort(key=..., reverse=True): descending and stable.
RECURSIVE InsertDesc(_, _)
InsertDesc(sorted, x) ==
    IF sorted = <<>> THEN <<x>>
    ELSE IF KeyGreater(x, Head(sorted)) THEN <<x>> \o sorted
    ELSE <<Head(sorted)>> \o InsertDesc(Tail(sorted), x)

RECURSIVE SortScored(_)
SortScored(s) ==
    IF s = <<>> THEN <<>>
    ELSE InsertDesc(SortScored(SubSeq(s, 1, Len(s) - 1)), s[Len(s)])

Scored(preliminary_f0_hz, summary_peaks) ==
    LET c == Candidates(preliminary_f0_hz)
    IN  [i \in 1..3 |-> ScoreCandidate(c[i], preliminary_f0_hz, summary_peaks)]

\* scored.sort(...); scored[0]
BestScored(preliminary_f0_hz, summary_peaks) ==
    SortScored(Scored(preliminary_f0_hz, summary_peaks))[1]

NoCorrection == [none |-> TRUE]

\* is_octave: 0.9 < |log2(best / preliminary)| < 1.1
IsOctave(best_f0, preliminary_f0_hz) ==
    LET l == Abs(Log2Rat(RatDiv(best_f0, preliminary_f0_hz)))
    IN  9 * UnitsPerOctave < 10 * l /\ 10 * l < 11 * UnitsPerOctave

\* improved >= 0.15
ImprovedEnough(best_fit, before_fit) ==
    100 * (best_fit.n * before_fit.d - before_fit.n * best_fit.d)
        >= 15 * best_fit.d * before_fit.d

AcceptedMutNoRange(best, before_fit, preliminary_f0_hz) ==
    /\ IsOctave(best.cand, preliminary_f0_hz)
    /\ ImprovedEnough(best.fit, before_fit)

Accepted(best, before_fit, preliminary_f0_hz) ==
    /\ IsOctave(best.cand, preliminary_f0_hz)
    /\ ImprovedEnough(best.fit, before_fit)
    /\ InRange(best.cand)

correct_octave_by_harmonic_fit(preliminary_f0_hz, summary_peaks) ==
    LET best == BestScored(preliminary_f0_hz, summary_peaks)
        before_fit == harmonic_grid_fit_score(summary_peaks, preliminary_f0_hz)
        accepted == Accepted(best, before_fit, preliminary_f0_hz)
    IN  [f0_hz |-> IF accepted THEN best.cand ELSE preliminary_f0_hz,
         harmonic_fit |-> IF accepted THEN best.fit ELSE before_fit,
         correction |->
            IF accepted
            THEN [original_f0_hz |-> preliminary_f0_hz,
                  corrected_f0_hz |-> best.cand,
                  harmonic_fit_before |-> before_fit,
                  harmonic_fit_after |-> best.fit]
            ELSE NoCorrection,
         accepted |-> accepted]

\* Inputs of the Octave Corrector specification.
PrelimHz == {30, 60, 100, 200, 1500, 3000}

RECURSIVE SeqsUpTo(_, _)
SeqsUpTo(S, n) ==
    IF n = 0 THEN {<<>>}
    ELSE LET shorter == SeqsUpTo(S, n - 1)
         IN  shorter \cup {Append(s, x) : s \in {t \in shorter : Len(t) = n - 1}, x \in S}

\* Summary lists: up to MaxSummaryIn peaks, followed by none or six peaks at
\* 20 Hz, which no candidate of PrelimHz aligns with: the longer lists make a
\* fit improvement of 1/7 .. 1/9, below the 0.15 threshold.  The peaks at 202
\* and 927 Hz are off the grid of 100 Hz by 1% and by 3%: the second is
\* nearest to the 9th multiple of 100 Hz and to the 19th of 50 Hz.
PadPeaks(n) == [i \in 1..n |-> 20]
SummaryInputs ==
    {s \o PadPeaks(n) : s \in SeqsUpTo({100, 150, 202, 300, 927, 3000}, MaxSummaryIn), n \in {0, 6}}

InitOctave ==
    /\ oc \in [pc : {"call"},
               preliminary_f0_hz : {Rat(f, 1) : f \in PrelimHz},
               summary_peaks : SummaryInputs]
    /\ ji = Idle /\ win = Idle /\ trk = Idle /\ par = Idle /\ bld = Idle /\ edo = Idle

OctaveCall ==
    /\ oc.pc = "call"
    /\ oc' = [pc |-> "done",
              preliminary_f0_hz |-> oc.preliminary_f0_hz,
              summary_peaks |-> oc.summary_peaks,
              result |-> correct_octave_by_harmonic_fit(oc.preliminary_f0_hz,
                                                         oc.summary_peaks)]
    /\ UNCHANGED <<ji, win, trk, par, edo, bld>>

NextOctave == OctaveCall

SpecOctave == InitOctave /\ [][NextOctave]_vars

(***************************************************************************)
(* JI candidate generation.  The ratio is given by its logarithm in units, *)
(* log_ratio = UnitsPerOctave * log2(ratio); cents_error is kept in units  *)
(* (84 to the cent) and complexity_score in units (UnitsPerOctave to 1.0). *)
(***************************************************************************)
MAX_PQ == 256
PRIME_LIMITS == <<5, 7, 11, 13>>

RECURSIVE Gcd(_, _)
Gcd(a, b) == IF b = 0 THEN a ELSE Gcd(b, a % b)

\* not (pf and max(pf) > prime_limit)
WithinLimit(n, prime_limit) ==
    LET pf == prime_factors(n)
    IN  pf = <<>> \/ pf[Len(pf)] <= prime_limit

SmoothNumbers(prime_limit) == {n \in 1..MAX_PQ : WithinLimit(n, prime_limit)}

\* The set `seen` after the loops: every key (pp, qq, prime_limit), once, with
\* the logarithms of pp and qq.
ReducedKeyMutNoReduce(p, q, prime_limit) == <<p, q, prime_limit>>

\* g = math.gcd(p, q); key = (p // g, q // g, prime_limit)
ReducedKey(p, q, prime_limit) ==
    LET g == Gcd(p, q)
    IN  <<p \div g, q \div g, prime_limit>>

\* The set `seen` after the loops: every key (pp, qq, prime_limit), once.
JIKeys ==
    UNION {
      LET smooth == SmoothNumbers(PRIME_LIMITS[l])
      IN  {ReducedKey(pq[1], pq[2], PRIME_LIMITS[l]) : pq \in smooth \X smooth}
      : l \in 1..Len(PRIME_LIMITS)}

\* The keys with the logarithms of pp and qq.
JIBase ==
    {[p |-> k[1], q |-> k[2], prime_limit |-> k[3],
      lp |-> Log2Int(k[1]), lq |-> Log2Int(k[2])] : k \in JIKeys}

CentsErrorMutInverted(b, log_ratio) == b.lq - b.lp - log_ratio

\* 1200.0 * math.log2(rr / ratio), in units.
CentsErrorUnits(b, log_ratio) == b.lp - b.lq - log_ratio

\* math.log2(pp * qq), in units.
ComplexityUnits(b) == b.lp + b.lq

\* total = |cents_error| + 6 * complexity + 2 * (prime_limit - 5), times
\* UnitsPerOctave.
TotalScaled(b, log_ratio) ==
    1200 * Abs(CentsErrorUnits(b, log_ratio))
      + 6 * ComplexityUnits(b)
      + 2 * (b.prime_limit - 5) * UnitsPerOctave

JIKeyMutQP(b, log_ratio) ==
    <<TotalScaled(b, log_ratio), Abs(CentsErrorUnits(b, log_ratio)),
      ComplexityUnits(b), b.q, b.p>>

\* The sort key (_total, |cents_error|, complexity_score, p, q).
JIKey(b, log_ratio) ==
    <<TotalScaled(b, log_ratio), Abs(CentsErrorUnits(b, log_ratio)),
      ComplexityUnits(b), b.p, b.q>>

RECURSIVE TupleLess(_, _)
TupleLess(a, b) ==
    /\ a # <<>>
    /\ \/ Head(a) < Head(b)
       \/ Head(a) = Head(b) /\ TupleLess(Tail(a), Tail(b))

JILess(a, b, log_ratio) == TupleLess(JIKey(a, log_ratio), JIKey(b, log_ratio))

\* The n-th least total (counted with repetition) over JIBase.
TotalCut(log_ratio, n) ==
    LET totals == {TotalScaled(b, log_ratio) : b \in JIBase}
    IN  CHOOSE t \in totals :
          /\ Cardinality({b \in JIBase : TotalScaled(b, log_ratio) < t}) < n
          /\ Cardinality({b \in JIBase : TotalScaled(b, log_ratio) <= t}) >= n

RECURSIVE InsertJI(_, _, _)
InsertJI(sorted, x, log_ratio) ==
    IF sorted = <<>> THEN <<x>>
    ELSE IF JILess(x, Head(sorted), log_ratio) THEN <<x>> \o sorted
    ELSE <<Head(sorted)>> \o InsertJI(Tail(sorted), x, log_ratio)

RECURSIVE SortJI(_, _)
SortJI(S, log_ratio) ==
    IF S = {} THEN <<>>
    ELSE LET x == CHOOSE y \in S : TRUE
         IN  InsertJI(SortJI(S \ {x}, log_ratio), x, log_ratio)

\* candidates.sort(key=...); candidates[:10].  No two candidates have equal
\* keys, so the first ten of the sorted list are the ten least, ascending.
SortedTop(log_ratio, n) ==
    LET cut == TotalCut(log_ratio, n)
        low == {b \in JIBase : TotalScaled(b, log_ratio) <= cut}
        s == SortJI(low, log_ratio)
    IN  SubSeq(s, 1, Min2(n, Len(s)))

JICandidate(b, log_ratio) ==
    [p |-> b.p, q |-> b.q,
     cents_error |-> CentsErrorUnits(b, log_ratio),
     prime_limit |-> b.prime_limit,
     complexity_score |-> ComplexityUnits(b),
     label |-> ToString(b.p) \o "/" \o ToString(b.q)]

generate_ji_candidates(log_ratio) ==
    LET top == SortedTop(log_ratio, 10)
    IN  [i \in 1..Len(top) |-> JICandidate(top[i], log_ratio)]

\* f"{x:.3f}" of the rational n/d: rounded to three decimals.
Pad3(k) ==
    IF k < 10 THEN "00" \o ToString(k)
    ELSE IF k < 100 THEN "0" \o ToString(k) ELSE ToString(k)

Fixed3(n, d) ==
    LET m == PyRound(1000 * Abs(n), d)
    IN  (IF n < 0 /\ m > 0 THEN "-" ELSE "") \o ToString(m \div 1000) \o "."
          \o Pad3(m % 1000)

\* bar["ji"] as build_dataset assigns it from the candidates of a bar.
JIBlock(ji_candidates) ==
    LET primary == ji_candidates[1]
    IN  [ji_candidates |-> ji_candidates,
         ji_primary |->
           [p |-> primary.p, q |-> primary.q,
            cents_error |-> primary.cents_error,
            prime_limit |-> primary.prime_limit,
            complexity_score |-> primary.complexity_score,
            label |-> primary.label,
            why |-> "closest weighted JI fit with " \o primary.label \o " at "
                      \o Fixed3(primary.cents_error, 84) \o " cents error, complexity "
                      \o Fixed3(primary.complexity_score, UnitsPerOctave)
                      \o ", prime limit " \o ToString(primary.prime_limit)]]

\* Inputs of the JI specification: log2 of the ratios 1, 3/2, 2/3, 5/4, 2^(2/5)
\* and 50, and a grid of others over [1, 50].
JIRatioInputs ==
    {0, Log2Int(3) - Log2Int(2), Log2Int(2) - Log2Int(3), Log2Int(5) - Log2Int(4),
     (2 * UnitsPerOctave) \div 5, Log2Int(50)}
      \cup {i * 11003 : i \in 1..MaxJIGrid}

InitJI ==
    /\ ji \in [pc : {"call"}, log_ratio : JIRatioInputs]
    /\ oc = Idle /\ win = Idle /\ trk = Idle /\ par = Idle /\ bld = Idle /\ edo = Idle

JICall ==
    /\ ji.pc = "call"
    /\ ji' = [pc |-> "generated", log_ratio |-> ji.log_ratio,
              candidates |-> generate_ji_candidates(ji.log_ratio)]
    /\ UNCHANGED <<oc, win, trk, par, edo, bld>>

\* build_dataset's use of the candidates of one bar.
JIAssign ==
    /\ ji.pc = "generated"
    /\ ji' = [pc |-> "assigned", log_ratio |-> ji.log_ratio,
              candidates |-> ji.candidates, block |-> JIBlock(ji.candidates)]
    /\ UNCHANGED <<oc, win, trk, par, edo, bld>>

NextJI == JICall \/ JIAssign

SpecJI == InitJI /\ [][NextJI]_vars

(***************************************************************************)
(* Window Selector.  The waveform is given by its length n and, candidate  *)
(* by candidate, the variance of the short-time RMS energy of the window   *)
(* starting there, in units of 0.5e-12.  Of the variances handed in, the   *)
(* record keeps their number (cands), the least (min_var) and, for each    *)
(* variance less than 1e-12 above the least, the latest start that had it  *)
(* (near).                                                                 *)
(***************************************************************************)
\* int(WINDOW_IGNORE_S * sr), int(WINDOW_TARGET_S * sr), int(WINDOW_MIN_S * sr),
\* int(RMS_FRAME_S * sr)
IgnoreSamples(sr) == sr \div 5
TargetSamples(sr) == sr
MinSamples(sr) == (2 * sr) \div 5
RmsFrameSamples(sr) == sr \div 20

\* The tolerance 1e-12 of the variance comparison, in variance units.
VAR_EPS == 2

WindowLengthMutNoClamp(max_win, min_win, available) ==
    LET w0 == Min2(max_win, available)
    IN  IF w0 < min_win THEN Max2(min_win, available) ELSE w0

\* win = min(max_win, available); if win < min_win: win = max(min_win, available);
\* if win > available: win = available
WindowLength(max_win, min_win, available) ==
    LET w0 == Min2(max_win, available)
        w1 == IF w0 < min_win THEN Max2(min_win, available) ELSE w0
    IN  IF w1 > available THEN available ELSE w1

NoVar == -1

BetterWindowMutNoTie(variance, s, best_var, best_start) ==
    \/ best_var = NoVar
    \/ variance < best_var - VAR_EPS

\* The test that replaces the best candidate.
BetterWindow(variance, s, best_var, best_start) ==
    \/ best_var = NoVar
    \/ variance < best_var - VAR_EPS
    \/ (Abs(variance - best_var) < VAR_EPS /\ s > best_start)

\* Inputs of the Window Selector specification: sample rates, and lengths of
\* whole twentieths of a second (one RMS frame), plus up to one sample.
WindowLengths(sr) ==
    {(q * sr) \div 20 + r : q \in 0..MaxTwentieths, r \in {0, 1}} \ {0}

InitWindow ==
    /\ \E sr \in {20, 48000} : \E n \in WindowLengths(sr) :
         win = [pc |-> "call", n |-> n, sr |-> sr]
    /\ oc = Idle /\ ji = Idle /\ trk = Idle /\ par = Idle /\ bld = Idle /\ edo = Idle

\* Lines 192-209: the sizes, and the early return when the lead-in takes all.
WindowEnter ==
    /\ win.pc = "call"
    /\ LET n == win.n
           sr == win.sr
           start_idx == Min2(IgnoreSamples(sr), n)
           available == n - start_idx
       IN  IF available <= 0
           THEN win' = [pc |-> "done", n |-> n, sr |-> sr,
                        result |-> [start |-> 0, end |-> n,
                                    note |-> "audio shorter than ignore lead-in; using full signal"]]
           ELSE win' = [pc |-> "loop", n |-> n, sr |-> sr,
                        start_idx |-> start_idx,
                        win |-> WindowLength(TargetSamples(sr), MinSamples(sr), available),
                        frame |-> Max2(1, RmsFrameSamples(sr)),
                        s |-> start_idx,
                        best_start |-> start_idx,
                        best_var |-> NoVar,
                        cands |-> 0, min_var |-> NoVar, near |-> {}]
    /\ UNCHANGED <<oc, ji, trk, par, edo, bld>>

\* One iteration of `for s in range(start_idx, n - win + 1, frame)`.
WindowIter ==
    /\ win.pc = "loop"
    /\ win.s < win.n - win.win + 1
    /\ IF (win.win \div win.frame) * win.frame = 0
       THEN win' = [win EXCEPT !.s = win.s + win.frame]
       ELSE \E variance \in 0..MaxVariance :
              LET least == IF win.min_var = NoVar THEN variance
                           ELSE Min2(win.min_var, variance)
                  near == {c \in {d \in win.near : d[1] # variance}
                                   \cup {<<variance, win.s>>} :
                             c[1] < least + VAR_EPS}
                  seen == [win EXCEPT !.s = win.s + win.frame,
                                      !.cands = win.cands + 1,
                                      !.min_var = least,
                                      !.near = near]
              IN  IF BetterWindow(variance, win.s, win.best_var, win.best_start)
                  THEN win' = [seen EXCEPT !.best_var = variance,
                                           !.best_start = win.s]
                  ELSE win' = seen
    /\ UNCHANGED <<oc, ji, trk, par, edo, bld>>

\* Lines 222-225: the note and the result.
WindowReturn ==
    /\ win.pc = "loop"
    /\ win.s >= win.n - win.win + 1
    /\ win' = [pc |-> "done", n |-> win.n, sr |-> win.sr,
               start_idx |-> win.start_idx, best_var |-> win.best_var,
               cands |-> win.cands, min_var |-> win.min_var, near |-> win.near,
               result |-> [start |-> win.best_start,
                           end |-> win.best_start + win.win,
                           \* n / sr < 1.2
                           note |-> IF 5 * win.n < 6 * win.sr
                                    THEN "short audio; analysis window reduced"
                                    ELSE ""]]
    /\ UNCHANGED <<oc, ji, trk, par, edo, bld>>

NextWindow == WindowEnter \/ WindowIter \/ WindowReturn

SpecWindow == InitWindow /\ [][NextWindow]_vars

(***************************************************************************)
(* Pitch Tracker.  The waveform is given by its length n and, frame by     *)
(* frame, the zero-lag autocorrelation ac[0] of the windowed, mean-free    *)
(* frame (0 or positive), the offset of the maximum of the searched lags   *)
(* and the peak value there in percent.                                    *)
(***************************************************************************)
\* Integer ceiling of a / b for a >= 0, b > 0.
CeilDiv(a, b) == (a + b - 1) \div b

\* max(1024, int(0.046 * sr)), max(256, frame_size // 4)
FrameSize(sr) == Max2(1024, (46 * sr) \div 1000)
HopSize(sr) == Max2(256, FrameSize(sr) \div 4)
\* max(1, floor(sr / max_hz)), min(frame_size - 1, ceil(sr / min_hz))
LagMin(sr) == Max2(1, sr \div MAX_F0_HZ)
LagMax(sr) == Min2(FrameSize(sr) - 1, CeilDiv(sr, MIN_F0_HZ))

FrameSkippedMutStrict(ac0) == ac0 < 0

\* if ac[0] <= 0: continue
FrameSkipped(ac0) == ac0 <= 0

\* float(np.clip(peak, 0.0, 1.0)), in percent.
Clip01(peak) == Max2(0, Min2(100, peak))

\* int(np.median(lags))
MedianLag(lags) ==
    LET q == StableSort(lags, [a, b \in Range(lags) |-> a < b])
        m == Len(q)
    IN  IF m % 2 = 1 THEN q[(m + 1) \div 2]
        ELSE (q[m \div 2] + q[m \div 2 + 1]) \div 2

\* Inputs of the Pitch Tracker specification: sample rates; lengths below one
\* frame, of one frame, and of up to MaxExtraHops hops more (less one sample).
TrackerRates == {40, 41, 8000, 44100, 48000}
TrackerLengths(sr) ==
    {1, FrameSize(sr) - 1}
      \cup {FrameSize(sr) + j * HopSize(sr) - r : j \in 0..MaxExtraHops, r \in {0, 1}}
LagOffsets(sr) == {0, (LagMax(sr) - LagMin(sr)) \div 2, LagMax(sr) - LagMin(sr) - 1}
\* np.hanning(frame_size)[0] = 0: a frame whose only non-zero sample is its
\* first is all zero after windowing.
Ac0Values(n) == IF n <= 1 THEN {0} ELSE {0, 1}

InitTracker ==
    /\ \E sr \in TrackerRates : \E n \in TrackerLengths(sr) :
         trk = [pc |-> "call", sr |-> sr, n |-> n]
    /\ oc = Idle /\ ji = Idle /\ win = Idle /\ par = Idle /\ bld = Idle /\ edo = Idle

\* Lines 235-254: the sizes, the degenerate-bounds error, the zero padding.
TrackerEnter ==
    /\ trk.pc = "call"
    /\ LET sr == trk.sr
           frame_size == FrameSize(sr)
           lmin == LagMin(sr)
           lmax == LagMax(sr)
       IN  IF lmax <= lmin
           THEN trk' = [pc |-> "raised", sr |-> sr, n |-> trk.n,
                        error |-> "invalid f0 lag search window"]
           ELSE trk' = [pc |-> "loop", sr |-> sr, n |-> trk.n,
                        frame_size |-> frame_size, hop |-> HopSize(sr),
                        lmin |-> lmin, lmax |-> lmax,
                        size |-> IF trk.n < frame_size THEN frame_size ELSE trk.n,
                        notes |-> IF trk.n < frame_size
                                  THEN <<"short audio; frame was zero-padded for f0 tracking">>
                                  ELSE <<>>,
                        s |-> 0, ac0s |-> <<>>,
                        f0s |-> <<>>, confs |-> <<>>, lags |-> <<>>]
    /\ UNCHANGED <<oc, ji, win, par, edo, bld>>

\* One iteration of `for s in range(0, x.size - frame_size + 1, hop)`.
TrackerFrame ==
    /\ trk.pc = "loop"
    /\ trk.s < trk.size - trk.frame_size + 1
    /\ \E ac0 \in Ac0Values(trk.n) :
         IF FrameSkipped(ac0) \/ trk.lmax - trk.lmin <= 0
         THEN trk' = [trk EXCEPT !.s = trk.s + trk.hop,
                                 !.ac0s = Append(trk.ac0s, ac0)]
         ELSE \E off \in LagOffsets(trk.sr) : \E peak \in {-20, 60, 120} :
                LET lag == off + trk.lmin
                IN  trk' = [trk EXCEPT !.s = trk.s + trk.hop,
                                       !.ac0s = Append(trk.ac0s, ac0),
                                       !.lags = Append(trk.lags, lag),
                                       !.f0s = Append(trk.f0s, Rat(trk.sr, lag)),
                                       !.confs = Append(trk.confs, Clip01(peak))]
    /\ UNCHANGED <<oc, ji, win, par, edo, bld>>

\* Lines 273-284: the error when no frame gave an estimate, or the result.
TrackerReturn ==
    /\ trk.pc = "loop"
    /\ trk.s >= trk.size - trk.frame_size + 1
    /\ IF trk.f0s = <<>>
       THEN trk' = [pc |-> "raised", sr |-> trk.sr, n |-> trk.n, ac0s |-> trk.ac0s,
                    error |-> "unable to estimate f0 from audio"]
       ELSE trk' = [pc |-> "returned", sr |-> trk.sr, n |-> trk.n, ac0s |-> trk.ac0s,
                    size |-> trk.size,
                    f0s |-> trk.f0s, confs |-> trk.confs,
                    meta |-> [lmin |-> trk.lmin, lmax |-> trk.lmax,
                              frame_size |-> trk.frame_size, hop |-> trk.hop,
                              median_lag |-> MedianLag(trk.lags),
                              notes |-> trk.notes]]
    /\ UNCHANGED <<oc, ji, win, par, edo, bld>>

NextTracker == TrackerEnter \/ TrackerFrame \/ TrackerReturn

SpecTracker == InitTracker /\ [][NextTracker]_vars

(***************************************************************************)
(* Partial Analyzer.  The waveform is given by its length n and the        *)
(* magnitude spectrum of its windowed FFT in whole dB over the bins at or  *)
(* above 20 Hz (mag_db; its order is the order of mag_valid).              *)
(***************************************************************************)
MAX_FFT == 262144

\* 1 << int(math.ceil(math.log2(max(2, n)))), capped at MAX_FFT
RECURSIVE Pow2AtLeast(_, _)
Pow2AtLeast(n, p) == IF p >= n THEN p ELSE Pow2AtLeast(n, 2 * p)
FftSize(n) == Min2(Pow2AtLeast(Max2(2, n), 1), MAX_FFT)

\* Bins 0 .. fft_n / 2 at i * sr / fft_n Hz; valid = freqs >= 20.0
FirstValidBin(sr, fft_n) == CeilDiv(20 * fft_n, sr)
ValidBins(sr, fft_n) == Max2(0, fft_n \div 2 - FirstValidBin(sr, fft_n) + 1)

MinOf(S) == CHOOSE x \in S : \A y \in S : x <= y
MaxOf(S) == CHOOSE x \in S : \A y \in S : x >= y

\* scipy.signal.find_peaks: the local maxima, a flat maximum at its middle
\* sample (rounded down); the first and the last sample are never peaks.
LocalMaxima(x) ==
    LET m == Len(x)
        IsRun(l, r) ==
          /\ \A i \in l..r : x[i] = x[l]
          /\ x[l - 1] < x[l]
          /\ x[r + 1] < x[r]
    IN  {(l + r) \div 2 : l \in 2..(m - 1), r \in 2..(m - 1)} \cap
        {i \in 2..(m - 1) :
           \E l \in 2..i : \E r \in i..(m - 1) : IsRun(l, r) /\ i = (l + r) \div 2}

\* scipy.signal.peak_prominences: the peak above the higher of the two lowest
\* points between it and the next higher sample (or the end) on either side.
Prominence(x, p) ==
    LET m == Len(x)
        left == MaxOf({0} \cup {i \in 1..(p - 1) : x[i] > x[p]}) + 1
        right == MinOf({m + 1} \cup {i \in (p + 1)..m : x[i] > x[p]}) - 1
        left_min == MinOf({x[i] : i \in left..p})
        right_min == MinOf({x[i] : i \in p..right})
    IN  x[p] - Max2(left_min, right_min)

\* The members of a set of integers in ascending order.
RECURSIVE AscendingSeq(_)
AscendingSeq(S) ==
    IF S = {} THEN <<>>
    ELSE LET a == MinOf(S) IN <<a>> \o AscendingSeq(S \ {a})

\* np.argsort(values): the positions 1..Len(values), ascending by value, equal
\* values in their original order.
Argsort(values) ==
    StableSort([k \in 1..Len(values) |-> k],
               [a, b \in 1..Len(values) |-> values[a] < values[b]])

Reverse(q) == [i \in 1..Len(q) |-> q[Len(q) + 1 - i]]
LastN(q, k) == SubSeq(q, Len(q) - k + 1, Len(q))
FirstN(q, k) == SubSeq(q, 1, Min2(k, Len(q)))

PeakOrderMutAscending(mag_at_peaks) == FirstN(Argsort(mag_at_peaks), MAX_PEAKS)

\* np.argsort(mag_db[peaks_idx])[::-1][:MAX_PEAKS]
PeakOrder(mag_at_peaks) == FirstN(Reverse(Argsort(mag_at_peaks)), MAX_PEAKS)

NoGuess == -1

\* Lines 374-379: the harmonic the peak is within 3% of, if any.
HarmonicGuess(hz, f0_hz) ==
    LET num == hz.n * f0_hz.d
        den == hz.d * f0_hz.n
        harmonic_index == PyRound(num, den)
    IN  IF harmonic_index < 1
           \/ 100 * Abs(num - harmonic_index * den) > 3 * harmonic_index * den
        THEN NoGuess
        ELSE harmonic_index

\* float(np.clip(prom / (PROMINENCE_DB * 2.0), 0.0, 1.0))
PeakConfidence(prom) ==
    IF prom <= 0 THEN Rat(0, 1)
    ELSE IF prom >= PROMINENCE_DB * 2 THEN Rat(1, 1)
    ELSE Rat(prom, PROMINENCE_DB * 2)

analyze_partials(n, sr, mag_db, f0_hz) ==
    LET fft_n == FftSize(n)
        first == FirstValidBin(sr, fft_n)
    IN  IF Len(mag_db) = 0
        THEN [branch |-> "empty", peaks |-> <<>>, summary |-> <<>>]
        ELSE
          LET found == AscendingSeq({i \in LocalMaxima(mag_db) :
                                       Prominence(mag_db, i) >= PROMINENCE_DB})
              fallback == Len(found) = 0
              peaks_idx ==
                IF fallback
                THEN LastN(Argsort(mag_db), Min2(MAX_PEAKS, Len(mag_db)))
                ELSE found
              prominences ==
                [k \in 1..Len(peaks_idx) |->
                   IF fallback THEN 1 ELSE Prominence(mag_db, peaks_idx[k])]
              amp_max == MaxOf({mag_db[i] : i \in 1..Len(mag_db)})
              order == PeakOrder([k \in 1..Len(peaks_idx) |-> mag_db[peaks_idx[k]]])
              Entry(k) ==
                LET idx == peaks_idx[k]
                    hz == Rat((first + idx - 1) * sr, fft_n)
                IN  [hz |-> hz,
                     rel_amp_db |-> mag_db[idx] - amp_max,
                     peak_confidence |-> PeakConfidence(prominences[k]),
                     harmonic_index_guess |-> HarmonicGuess(hz, f0_hz)]
              entries == [j \in 1..Len(order) |-> Entry(order[j])]
          IN  [branch |-> IF fallback THEN "fallback" ELSE "prominence",
               peaks |-> entries,
               summary |-> FirstN(entries, SUMMARY_PEAKS)]

\* Inputs of the Partial Analyzer specification.  Short waveforms with every
\* spectrum over SpectrumLevels; one waveform of 128 valid bins with comb
\* spectra: peaks on the even bins, lower by `tilt` per step of `period`, over
\* valleys `depth` dB down.
ShortInputs == {<<48000, 2>>, <<48000, 4>>, <<48000, 7>>, <<100, 8>>, <<30, 4>>}
AllSpectra(m) == [1..m -> {-40, -20, 0}]
CombSpectrum(m, period, depth) ==
    [j \in 1..m |-> IF j % 2 = 0 THEN -((j \div 2) % period) ELSE -depth]
CombInputs ==
    {CombSpectrum(128, period, depth) : period \in 1..MaxCombPeriod, depth \in {10, 14, 15, 40}}

InitPartials ==
    /\ \/ \E in \in ShortInputs : \E mag_db \in AllSpectra(ValidBins(in[1], FftSize(in[2]))) :
            \E f0_hz \in {Rat(100, 1), Rat(375, 1)} :
              par = [pc |-> "call", sr |-> in[1], n |-> in[2], mag_db |-> mag_db,
                     f0_hz |-> f0_hz]
       \/ \E mag_db \in CombInputs :
            par = [pc |-> "call", sr |-> 48000, n |-> 200, mag_db |-> mag_db,
                   f0_hz |-> Rat(375, 1)]
    /\ oc = Idle /\ ji = Idle /\ win = Idle /\ trk = Idle /\ bld = Idle /\ edo = Idle

PartialsCall ==
    /\ par.pc = "call"
    /\ par' = [pc |-> "done", sr |-> par.sr, n |-> par.n, mag_db |-> par.mag_db,
               f0_hz |-> par.f0_hz,
               result |-> analyze_partials(par.n, par.sr, par.mag_db, par.f0_hz)]
    /\ UNCHANGED <<oc, ji, win, trk, edo, bld>>

NextPartials == PartialsCall

SpecPartials == InitPartials /\ [][NextPartials]_vars

(***************************************************************************)
(* Tuning Inference: the EDO interpretation of one bar (lines 707-720),    *)
(* on the logarithm of within_octave_ratio in units.  target_ratio is kept *)
(* as its logarithm step / edo octaves, cents_error_from_target as         *)
(* 1200 * log2 in units (84 to the cent).                                  *)
(***************************************************************************)
NoEdo == [none |-> TRUE]

\* bar["instrument_id"].startswith("edo")
IsEdoFamily(instrument_id) == instrument_id \in {"edo5", "edo7", "edo8", "edo9"}

\* int(bar["instrument_id"].replace("edo", ""))
EdoOf(instrument_id) ==
    CASE instrument_id = "edo5" -> 5
      [] instrument_id = "edo7" -> 7
      [] instrument_id = "edo8" -> 8
      [] instrument_id = "edo9" -> 9

EdoStepMutWrap(n_edo, log_within) == PyRound(n_edo * log_within, UnitsPerOctave) % n_edo

EdoStepMutFloor(n_edo, log_within) == (n_edo * log_within) \div UnitsPerOctave

\* int(round(edo * math.log2(within)))
EdoStep(n_edo, log_within) == PyRound(n_edo * log_within, UnitsPerOctave)

edo_interpretation(instrument_id, log_within, octave_abs) ==
    IF IsEdoFamily(instrument_id)
    THEN LET n_edo == EdoOf(instrument_id)
             step == EdoStep(n_edo, log_within)
             target_log == (step * UnitsPerOctave) \div n_edo
         IN  [edo |-> n_edo,
              step |-> step,
              octave |-> octave_abs,
              target_ratio |-> target_log,
              cents_error_from_target |-> log_within - target_log]
    ELSE NoEdo

\* Inputs of the Tuning specification: within_octave_ratio over a grid of
\* [1, 2) that holds every exact step and every midpoint between two steps of
\* the four EDOs, and the octaves -1 .. MaxOctaveIn.
WithinLogs == {i * (UnitsPerOctave \div 144) : i \in 0..143} \cup {(2 * UnitsPerOctave) \div 5}
               \cup {(k * UnitsPerOctave) \div (2 * e) : k \in 0..17, e \in {5, 7, 8, 9}}

InitTuning ==
    /\ \E id \in {INSTRUMENT_IDS[i] : i \in 1..Len(INSTRUMENT_IDS)} :
         \E lw \in {l \in WithinLogs : l < UnitsPerOctave} : \E o \in -1..MaxOctaveIn :
           edo = [pc |-> "tune", instrument_id |-> id, log_within |-> lw, octave_abs |-> o]
    /\ oc = Idle /\ ji = Idle /\ win = Idle /\ trk = Idle /\ par = Idle /\ bld = Idle

TuneEdo ==
    /\ edo.pc = "tune"
    /\ edo' = [pc |-> "tuned", instrument_id |-> edo.instrument_id,
              log_within |-> edo.log_within, octave_abs |-> edo.octave_abs,
              edo_interpretation |->
                edo_interpretation(edo.instrument_id, edo.log_within, edo.octave_abs)]
    /\ UNCHANGED <<oc, ji, win, trk, par, bld>>

NextTuning == TuneEdo

SpecTuning == InitTuning /\ [][NextTuning]_vars

(***************************************************************************)
(* build_dataset.  A corpus is given by what the analysis stages find in   *)
(* each audio file: the note of the stable window, the lag and the peak    *)
(* value (in percent) of every analysed frame of the Pitch Tracker (no     *)
(* frame: the tracker raises) with its notes, and the frequencies of the   *)
(* peaks of the Partial Analyzer in whole Hz, strongest first.             *)
(***************************************************************************)
RatNorm(a) ==
    LET g == Gcd(Abs(a.n), a.d)
    IN  IF a.n = 0 THEN Rat(0, 1) ELSE Rat(a.n \div g, a.d \div g)
RatAdd(a, b) == RatNorm(Rat(a.n * b.d + b.n * a.d, a.d * b.d))
RatSub(a, b) == RatNorm(Rat(a.n * b.d - b.n * a.d, a.d * b.d))
RatMul(a, b) == RatNorm(Rat(a.n * b.n, a.d * b.d))

SortRat(q) == StableSort(q, [a, b \in Range(q) |-> RatLess(a, b)])

RECURSIVE RatSum(_)
RatSum(q) == IF q = <<>> THEN Rat(0, 1) ELSE RatAdd(Head(q), RatSum(Tail(q)))

\* np.mean, np.var (population variance), np.median
RatMean(q) == RatMul(RatSum(q), Rat(1, Len(q)))
RatVar(q) ==
    LET mean == RatMean(q)
    IN  RatMean([i \in 1..Len(q) |-> RatMul(RatSub(q[i], mean), RatSub(q[i], mean))])
RatMedian(q) ==
    LET sorted == SortRat(q)
        m == Len(sorted)
    IN  IF m % 2 = 1 THEN sorted[(m + 1) \div 2]
        ELSE RatMul(RatAdd(sorted[m \div 2], sorted[m \div 2 + 1]), Rat(1, 2))

\* np.quantile(q, num / den): linear interpolation between the two nearest ranks.
RatQuantile(q, num, den) ==
    LET sorted == SortRat(q)
        h == (Len(sorted) - 1) * num
        lo == h \div den + 1
    IN  IF h % den = 0 THEN sorted[lo]
        ELSE RatAdd(sorted[lo],
                    RatMul(RatSub(sorted[lo + 1], sorted[lo]), Rat(h % den, den)))

RatClip01(a) ==
    IF a.n < 0 THEN Rat(0, 1) ELSE IF a.n > a.d THEN Rat(1, 1) ELSE a

\* f"{x:.2f}" of the rational n/d >= 0.
Fixed2(n, d) ==
    LET m == PyRound(100 * n, d)
    IN  ToString(m \div 100) \o "." \o (IF m % 100 < 10 THEN "0" ELSE "")
          \o ToString(m % 100)

\* "; ".join(n for n in notes if n)
RECURSIVE JoinNotes(_)
JoinNotes(notes) ==
    IF notes = <<>> THEN ""
    ELSE IF Head(notes) = "" THEN JoinNotes(Tail(notes))
    ELSE LET rest == JoinNotes(Tail(notes))
         IN  IF rest = "" THEN Head(notes) ELSE Head(notes) \o "; " \o rest

\* The sample rate _read_audio returns for every file of the corpus.
BuildRate == 48000

\* The entries of the peak list for a candidate f0 (hz and
\* harmonic_index_guess), and their first SUMMARY_PEAKS.
PartialEntries(peak_hz, f0_hz) ==
    [i \in 1..Min2(MAX_PEAKS, Len(peak_hz)) |->
       [hz |-> peak_hz[i],
        harmonic_index_guess |-> HarmonicGuess(Rat(peak_hz[i], 1), f0_hz)]]
SummaryHz(summary_peaks) == [i \in 1..Len(summary_peaks) |-> summary_peaks[i].hz]

\* Lines 572-686: the record of one bar as stages 1-4 leave it.
BarRecord(instrument_id, default_pos, pos_raw, fx) ==
    LET sr == BuildRate
        position_index == IF pos_raw # 0 THEN pos_raw ELSE default_pos
        pos_note == IF pos_raw # 0 THEN "from manifest"
                    ELSE "derived from natural filename order"
        f0_frames == [i \in 1..Len(fx.lags) |-> RatNorm(Rat(sr, fx.lags[i]))]
        conf_frames == [i \in 1..Len(fx.peaks) |-> Rat(Clip01(fx.peaks[i]), 100)]
        f0_prelim_hz == RatMedian(f0_frames)
        iqr == RatSub(RatQuantile(f0_frames, 3, 4), RatQuantile(f0_frames, 1, 4))
        \* 1 / (1 + var / f0_prelim_hz) = f0_prelim_hz / (f0_prelim_hz + var)
        steadiness == RatDiv(f0_prelim_hz, RatAdd(f0_prelim_hz, RatVar(f0_frames)))
        f0_conf ==
          RatClip01(RatAdd(RatMul(Rat(1, 2), RatMean(conf_frames)),
                           RatMul(Rat(1, 2), steadiness)))
        summary_prelim == FirstN(PartialEntries(fx.peak_hz, f0_prelim_hz), SUMMARY_PEAKS)
        c == correct_octave_by_harmonic_fit(f0_prelim_hz, SummaryHz(summary_prelim))
        peaks == PartialEntries(fx.peak_hz, c.f0_hz)
    IN  [bar_id |-> instrument_id \o "-" \o ToString(default_pos),
         instrument_id |-> instrument_id,
         position_index |-> position_index,
         f0 |->
           [f0_hz |-> c.f0_hz,
            f0_confidence |-> f0_conf,
            f0_confidence_notes |->
              JoinNotes(<<fx.window_note, pos_note>> \o fx.tracker_notes \o
                        <<IF c.accepted
                          THEN "octave-corrected: "
                                 \o Fixed3(f0_prelim_hz.n, f0_prelim_hz.d) \o "->"
                                 \o Fixed3(c.f0_hz.n, c.f0_hz.d) \o " (harmonic fit "
                                 \o Fixed2(c.correction.harmonic_fit_before.n,
                                           c.correction.harmonic_fit_before.d) \o "->"
                                 \o Fixed2(c.correction.harmonic_fit_after.n,
                                           c.correction.harmonic_fit_after.d) \o ")"
                          ELSE "">>),
            f0_search |-> [min_hz |-> MIN_F0_HZ, max_hz |-> MAX_F0_HZ,
                           lmin |-> LagMin(sr), lmax |-> LagMax(sr),
                           frame_size |-> FrameSize(sr),
                           median_lag |-> MedianLag(fx.lags)],
            f0_corrections |-> c.correction,
            harmonic_grid_fit |-> c.harmonic_fit,
            f0_distribution |->
              [median_hz |-> c.f0_hz,
               iqr_hz |-> iqr,
               min_hz |-> SortRat(f0_frames)[1],
               max_hz |-> SortRat(f0_frames)[Len(f0_frames)],
               n_frames |-> Len(f0_frames)]],
         partials |-> [peaks |-> peaks, summary_peaks |-> FirstN(peaks, SUMMARY_PEAKS)],
         register |-> [octave_abs |-> 0, within_octave_ratio |-> Rat(1, 1)],
         edo_interpretation |-> NoEdo,
         ji |-> [ji_candidates |-> <<>>, ji_primary |-> [none |-> TRUE]],
         global_order_index |-> 0]

\* The order of the instrument ids as Python compares strings, which is their
\* order in INSTRUMENT_IDS.
InstrumentRank(instrument_id) ==
    CHOOSE i \in 1..Len(INSTRUMENT_IDS) : INSTRUMENT_IDS[i] = instrument_id

BarKeyLessMutNoF0(a, b) ==
    \/ InstrumentRank(a.instrument_id) < InstrumentRank(b.instrument_id)
    \/ /\ a.instrument_id = b.instrument_id
       /\ a.position_index < b.position_index

\* The sort key (f0_hz, instrument_id, position_index), compared as tuples.
BarKeyLess(a, b) ==
    \/ RatLess(a.f0.f0_hz, b.f0.f0_hz)
    \/ /\ RatEq(a.f0.f0_hz, b.f0.f0_hz)
       /\ \/ InstrumentRank(a.instrument_id) < InstrumentRank(b.instrument_id)
          \/ /\ a.instrument_id = b.instrument_id
             /\ a.position_index < b.position_index

\* sorted(bars, key=...): ascending and stable.  bars_sorted holds the same
\* bar objects as bars; it is kept as the sequence of their indices in bars.
bars_sorted(bars) ==
    StableSort([k \in 1..Len(bars) |-> k],
               [a, b \in 1..Len(bars) |-> BarKeyLess(bars[a], bars[b])])

OctaveAbsMutRound(log_ratio) == PyRound(log_ratio, UnitsPerOctave)

\* math.floor(math.log2(f0 / f_ref))
OctaveAbs(log_ratio) == log_ratio \div UnitsPerOctave

RECURSIVE Pow2(_)
Pow2(k) == IF k = 0 THEN 1 ELSE 2 * Pow2(k - 1)

\* f0 / (f_ref * (2 ** octave_abs))
WithinOctave(f0, f_ref, octave_abs) ==
    IF octave_abs >= 0
    THEN RatNorm(Rat(f0.n * f_ref.d, f0.d * f_ref.n * Pow2(octave_abs)))
    ELSE RatNorm(Rat(f0.n * f_ref.d * Pow2(-octave_abs), f0.d * f_ref.n))

\* a - b >= num / den
RatDiffAtLeast(a, b, num, den) ==
    den * (a.n * b.d - b.n * a.d) >= num * a.d * b.d

RatMax(a, b) == IF RatLess(a, b) THEN b ELSE a

\* Lines 736-796: the QC entry of a bar.
QcEntry(bar) ==
    LET f0 == bar.f0.f0_hz
        dist == bar.f0.f0_distribution
        unstable == 100 * dist.iqr_hz.n * dist.median_hz.d
                      > dist.iqr_hz.d * dist.median_hz.n
        summary_hz == SummaryHz(bar.partials.summary_peaks)
        too_few == Len(summary_hz) < 5
        fit_now == harmonic_grid_fit_score(summary_hz, f0)
        fit_half == harmonic_grid_fit_score(summary_hz, RatHalf(f0))
        fit_double == harmonic_grid_fit_score(summary_hz, RatDouble(f0))
        fit_other == RatMax(fit_half, fit_double)
        mismatch == 100 * fit_now.n < 45 * fit_now.d
        suspicious ==
          \/ bar.f0.f0_corrections # NoCorrection
          \/ mismatch /\ RatDiffAtLeast(fit_other, fit_now, 15, 100)
          \/ RatDiffAtLeast(fit_other, fit_now, 20, 100)
        high_peak_not_near_harmonic ==
          IF summary_hz = <<>> THEN FALSE
          ELSE LET hp_hz == summary_hz[1]
                   k == PyRound(hp_hz * f0.d, f0.n)
               IN  IF k < 1 THEN TRUE
                   ELSE 100 * Abs(hp_hz * f0.d - k * f0.n) > 3 * k * f0.n
        search == bar.f0.f0_search
        lag_near_boundary ==
          \/ search.lmin > 0 /\ search.median_lag <= search.lmin + 1
          \/ search.lmax > 0 /\ search.median_lag >= search.lmax - 1
        hz_near_boundary ==
          \/ 100 * Abs(f0.n - MIN_F0_HZ * f0.d) <= 2 * MIN_F0_HZ * f0.d
          \/ 100 * Abs(f0.n - MAX_F0_HZ * f0.d) <= 2 * MAX_F0_HZ * f0.d
        f0_at_range_boundary == hz_near_boundary \/ lag_near_boundary
    IN  [bar_id |-> bar.bar_id,
         low_confidence |-> 10 * bar.f0.f0_confidence.n < 6 * bar.f0.f0_confidence.d,
         unstable_f0 |-> unstable,
         suspicious_octave |-> suspicious,
         too_few_peaks |-> too_few,
         f0_at_range_boundary |-> f0_at_range_boundary,
         harmonic_grid_mismatch |-> mismatch,
         high_peak_not_near_harmonic |-> high_peak_not_near_harmonic,
         notes |-> JoinNotes(<<IF unstable THEN "high relative f0 IQR" ELSE "",
                               IF too_few THEN "low partial count" ELSE "",
                               IF f0_at_range_boundary
                               THEN "f0 near configured range boundary" ELSE "",
                               IF mismatch THEN "weak harmonic grid alignment" ELSE "">>)]

\* What the analysis stages find in a file.
Fixture(window_note, lags, peaks, tracker_notes, peak_hz) ==
    [window_note |-> window_note, lags |-> lags, peaks |-> peaks,
     tracker_notes |-> tracker_notes, peak_hz |-> peak_hz]

Fixtures ==
    [clean100 |-> Fixture("", <<480>>, <<90>>, <<>>, <<100, 200, 300, 400, 500>>),
     clean200 |-> Fixture("", <<240, 240>>, <<80, 120>>, <<>>, <<200, 400, 600, 800, 1000>>),
     octave200 |-> Fixture("", <<240, 240, 240>>, <<70, 60, 50>>, <<>>,
                           <<100, 300, 500, 700, 900>>),
     mixed300 |-> Fixture("short audio; analysis window reduced", <<120, 240>>, <<40, 30>>,
                          <<"short audio; frame was zero-padded for f0 tracking">>,
                          <<300, 600>>),
     high400 |-> Fixture("", <<120>>, <<-20>>, <<>>, <<>>),
     silent |-> Fixture("", <<>>, <<>>, <<>>, <<>>)]

\* The files of each instrument folder; every folder holds at least one (or
\* _scan_audio_entries raises), the first up to MaxExtraBars more.
FolderChoices(i) ==
    LET fx == Fixtures
    IN  CASE i = 1 -> {<<first>> \o more :
                         first \in {fx[name] : name \in DOMAIN fx},
                         more \in SeqsUpTo({fx.clean100, fx.octave200, fx.high400},
                                           MaxExtraBars)}
          [] i = 2 -> {<<fx.clean100>>, <<fx.clean200>>, <<fx.silent>>}
          [] i = 3 -> {<<fx.mixed300>>}
          [] i = 4 -> {<<fx.clean200>>, <<fx.high400>>}
          [] i = 5 -> {<<fx.clean100>>, <<fx.octave200>>}

\* The position_index column of the manifest rows of a folder of k files:
\* blank (0), the reverse of the filename order, or the same for all.
ManifestChoices(k) ==
    IF k = 1 THEN {<<0>>}
    ELSE {[j \in 1..k |-> 0], [j \in 1..k |-> k + 1 - j], [j \in 1..k |-> 1]}

\* _generate_ji_candidates at the logarithms of the ratios f0 / f_ref that
\* occur in the corpora (f_ref is the least f0 of a corpus), evaluated once.
CorpusLogRatios ==
    LET f0s == {BarRecord("edo5", 1, 0, Fixtures[name]).f0.f0_hz :
                  name \in DOMAIN Fixtures \ {"silent"}}
    IN  {Log2Rat(RatNorm(RatDiv(p[1], p[2]))) :
           p \in {q \in f0s \X f0s : RatLeq(q[2], q[1])}}
JICandidatesAt == [lr \in CorpusLogRatios |-> generate_ji_candidates(lr)]

NoRef == Rat(0, 1)

Init ==
    /\ \E e1 \in FolderChoices(1), e2 \in FolderChoices(2), e3 \in FolderChoices(3),
          e4 \in FolderChoices(4), e5 \in FolderChoices(5) :
         \E manifest \in ManifestChoices(Len(e1)) :
           LET entries == <<e1, e2, e3, e4, e5>> IN
           bld = [pc |-> "analysis", entries |-> entries, manifest |-> manifest,
                  inst |-> 1, default_pos |-> 1,
                  bars |-> <<>>, order |-> <<>>, f_ref |-> NoRef, idx |-> 0,
                  qc_entries |-> <<>>, written |-> <<>>, error |-> ""]
    /\ oc = Idle /\ ji = Idle /\ win = Idle /\ trk = Idle /\ par = Idle /\ edo = Idle

CurrentFixture == bld.entries[bld.inst][bld.default_pos]

\* One iteration of the loops of lines 558-686 that ends at bars.append(bar).
AnalyzeBar ==
    /\ bld.pc = "analysis"
    /\ CurrentFixture.lags # <<>>
    /\ LET last_of_folder == bld.default_pos = Len(bld.entries[bld.inst])
           pos_raw == IF bld.inst = 1 THEN bld.manifest[bld.default_pos] ELSE 0
           bar == BarRecord(INSTRUMENT_IDS[bld.inst], bld.default_pos, pos_raw,
                            CurrentFixture)
       IN  bld' = [bld EXCEPT
                     !.bars = Append(bld.bars, bar),
                     !.inst = IF last_of_folder THEN bld.inst + 1 ELSE bld.inst,
                     !.default_pos = IF last_of_folder THEN 1 ELSE bld.default_pos + 1,
                     !.pc = IF last_of_folder /\ bld.inst = Len(INSTRUMENT_IDS)
                            THEN "sort" ELSE "analysis"]
    /\ UNCHANGED <<oc, ji, win, trk, par, edo>>

\* An iteration in which _estimate_f0_acf_with_meta raises: build_dataset ends.
AnalyzeBarRaises ==
    /\ bld.pc = "analysis"
    /\ CurrentFixture.lags = <<>>
    /\ bld' = [bld EXCEPT !.pc = "failed",
                          !.error = "unable to estimate f0 from audio"]
    /\ UNCHANGED <<oc, ji, win, trk, par, edo>>

\* Lines 688-698.
SortBars ==
    /\ bld.pc = "sort"
    /\ LET order == bars_sorted(bld.bars)
       IN  bld' = [bld EXCEPT !.order = order,
                              !.f_ref = bld.bars[order[1]].f0.f0_hz,
                              !.idx = 1,
                              !.pc = "tuning"]
    /\ UNCHANGED <<oc, ji, win, trk, par, edo>>

\* One iteration of the loop of lines 700-796.
TuneBar ==
    /\ bld.pc = "tuning"
    /\ bld.idx <= Len(bld.order)
    /\ LET k == bld.order[bld.idx]
           bar == bld.bars[k]
           f0 == bar.f0.f0_hz
           log_ratio == Log2Rat(RatNorm(RatDiv(f0, bld.f_ref)))
           octave_abs == OctaveAbs(log_ratio)
           within == WithinOctave(f0, bld.f_ref, octave_abs)
           tuned == [bar EXCEPT
                       !.register = [octave_abs |-> octave_abs,
                                     within_octave_ratio |-> within],
                       !.global_order_index = bld.idx,
                       !.edo_interpretation =
                          edo_interpretation(bar.instrument_id, Log2Rat(within), octave_abs),
                       !.ji = JIBlock(JICandidatesAt[log_ratio])]
       IN  bld' = [bld EXCEPT !.bars[k] = tuned,
                              !.qc_entries = Append(bld.qc_entries, QcEntry(tuned)),
                              !.idx = bld.idx + 1]
    /\ UNCHANGED <<oc, ji, win, trk, par, edo>>

\* Lines 798-801: the bar files, in global order.
WriteBars ==
    /\ bld.pc = "tuning"
    /\ bld.idx > Len(bld.order)
    /\ bld' = [bld EXCEPT !.written = [j \in 1..Len(bld.order) |-> bld.bars[bld.order[j]]],
                          !.pc = "written"]
    /\ UNCHANGED <<oc, ji, win, trk, par, edo>>

Next == AnalyzeBar \/ AnalyzeBarRaises \/ SortBars \/ TuneBar \/ WriteBars

Spec == Init /\ [][Next]_vars

(***************************************************************************)
(* C1.  Octave Corrector contract: the returned f0 differs from the        *)
(* preliminary f0 exactly when the best-scoring candidate is one octave    *)
(* away, its fit exceeds the fit of the preliminary f0 by at least 0.15    *)
(* and it lies in [40, 2000] Hz; then the result is that candidate, its    *)
(* fit and a populated correction record; otherwise the preliminary f0,    *)
(* its fit and no correction record.                                       *)
(***************************************************************************)
C1_Condition ==
    LET p == oc.preliminary_f0_hz
        best == BestScored(p, oc.summary_peaks)
        before == harmonic_grid_fit_score(oc.summary_peaks, p)
        after == harmonic_grid_fit_score(oc.summary_peaks, best.cand)
    IN  /\ (RatEq(best.cand, RatHalf(p)) \/ RatEq(best.cand, RatDouble(p)))
        /\ 20 * (after.n * before.d - before.n * after.d) >= 3 * after.d * before.d
        /\ 40 * best.cand.d <= best.cand.n
        /\ best.cand.n <= 2000 * best.cand.d

C1_OctaveContract ==
    oc.pc = "done" =>
      LET p == oc.preliminary_f0_hz
          best == BestScored(p, oc.summary_peaks)
          before == harmonic_grid_fit_score(oc.summary_peaks, p)
          after == harmonic_grid_fit_score(oc.summary_peaks, best.cand)
          r == oc.result
      IN  /\ (~RatEq(r.f0_hz, p)) <=> C1_Condition
          /\ C1_Condition =>
               /\ r.f0_hz = best.cand
               /\ r.harmonic_fit = after
               /\ r.correction = [original_f0_hz |-> p,
                                  corrected_f0_hz |-> best.cand,
                                  harmonic_fit_before |-> before,
                                  harmonic_fit_after |-> after]
          /\ ~C1_Condition =>
               /\ r.f0_hz = p
               /\ r.harmonic_fit = before
               /\ r.correction = NoCorrection

\* A correction was accepted on a list long enough for the 0.15 threshold to
\* reject a smaller improvement (k >= 7).
C1_WitnessAccepted ==
    /\ oc.pc = "done"
    /\ oc.result.correction # NoCorrection
    /\ ~RatEq(oc.result.f0_hz, oc.preliminary_f0_hz)
    /\ Len(oc.summary_peaks) >= 7

(***************************************************************************)
(* C3.  JI candidate generation returns exactly 10 candidates; each has    *)
(* coprime p, q in [1, 256], a prime_limit in {5, 7, 11, 13} bounding      *)
(* every prime factor of p and q, the label "p/q", and no two candidates   *)
(* share (p, q, prime_limit).                                              *)
(***************************************************************************)
C3_IsPrime(d) == d >= 2 /\ \A e \in 2..(d - 1) : d % e # 0

C3_CandidateShape(c) ==
    /\ c.p \in 1..256 /\ c.q \in 1..256
    /\ \A d \in 2..256 : ~(c.p % d = 0 /\ c.q % d = 0)
    /\ c.prime_limit \in {5, 7, 11, 13}
    /\ \A d \in 2..256 :
         ((c.p % d = 0 \/ c.q % d = 0) /\ C3_IsPrime(d)) => d <= c.prime_limit
    /\ c.label = ToString(c.p) \o "/" \o ToString(c.q)

C3_JICandidateShape ==
    ji.pc # "call" =>
      /\ Len(ji.candidates) = 10
      /\ \A i \in 1..Len(ji.candidates) : C3_CandidateShape(ji.candidates[i])
      /\ \A i, j \in 1..Len(ji.candidates) :
           i # j => <<ji.candidates[i].p, ji.candidates[i].q, ji.candidates[i].prime_limit>>
                      # <<ji.candidates[j].p, ji.candidates[j].q, ji.candidates[j].prime_limit>>

\* A result that holds the same ratio at two prime limits and a 13-limit ratio.
C3_WitnessLimits ==
    /\ ji.pc = "generated"
    /\ \E i, j \in 1..Len(ji.candidates) :
         /\ i # j
         /\ ji.candidates[i].p = ji.candidates[j].p
         /\ ji.candidates[i].q = ji.candidates[j].q
    /\ \E i \in 1..Len(ji.candidates) :
         ji.candidates[i].p % 13 = 0 /\ ji.candidates[i].prime_limit = 13

(***************************************************************************)
(* C4.  JI ranking: the returned candidates are the 10 lowest of the whole *)
(* enumerated set under |cents_error| + 6*log2(p*q) + 2*(prime_limit-5),   *)
(* in ascending score, ties broken by |cents_error|, then complexity, then *)
(* smaller p, then smaller q; ji_primary repeats the first candidate.      *)
(***************************************************************************)
\* The composite score of a returned candidate, from its own fields, times
\* UnitsPerOctave.
C4_Score(c) ==
    1200 * Abs(c.cents_error) + 6 * c.complexity_score
      + 2 * (c.prime_limit - 5) * UnitsPerOctave

C4_Before(a, b) ==
    \/ C4_Score(a) < C4_Score(b)
    \/ /\ C4_Score(a) = C4_Score(b)
       /\ \/ Abs(a.cents_error) < Abs(b.cents_error)
          \/ /\ Abs(a.cents_error) = Abs(b.cents_error)
             /\ \/ a.complexity_score < b.complexity_score
                \/ /\ a.complexity_score = b.complexity_score
                   /\ \/ a.p < b.p
                      \/ a.p = b.p /\ a.q < b.q

\* The whole enumerated set: coprime pairs of [1, 256] within each prime
\* limit, with the logarithms of p and q.
C4_Primes == {d \in 2..256 : C3_IsPrime(d)}

C4_Within(prime_limit) ==
    {n \in 1..256 : \A d \in C4_Primes : n % d = 0 => d <= prime_limit}

C4_Enumerated ==
    UNION {
      LET within == C4_Within(l)
      IN  {[p |-> pq[1], q |-> pq[2], prime_limit |-> l,
            lp |-> Log2Int(pq[1]), lq |-> Log2Int(pq[2])]
             : pq \in {x \in within \X within : Gcd(x[1], x[2]) = 1}}
      : l \in {5, 7, 11, 13}}

C4_AsCandidate(k, log_ratio) ==
    [p |-> k.p, q |-> k.q, prime_limit |-> k.prime_limit,
     cents_error |-> k.lp - k.lq - log_ratio,
     complexity_score |-> k.lp + k.lq]

C4_JIRanking ==
    /\ ji.pc = "generated" =>
         LET c == ji.candidates
             returned == {<<c[i].p, c[i].q, c[i].prime_limit>> : i \in 1..Len(c)}
         IN  /\ \A i \in 1..(Len(c) - 1) : C4_Before(c[i], c[i + 1])
             /\ \A k \in C4_Enumerated :
                  <<k.p, k.q, k.prime_limit>> \notin returned
                    => C4_Score(c[Len(c)]) <= C4_Score(C4_AsCandidate(k, ji.log_ratio))
    /\ ji.pc = "assigned" =>
         LET first == ji.block.ji_candidates[1]
             primary == ji.block.ji_primary
         IN  /\ ji.block.ji_candidates = ji.candidates
             /\ primary.p = first.p /\ primary.q = first.q
             /\ primary.cents_error = first.cents_error
             /\ primary.prime_limit = first.prime_limit
             /\ primary.complexity_score = first.complexity_score

\* ji_primary is assigned from a result in which two candidates tie on score,
\* on |cents_error| and on complexity, and p decides.
C4_WitnessTie ==
    /\ ji.pc = "assigned"
    /\ \E i \in 1..(Len(ji.candidates) - 1) :
         LET a == ji.candidates[i]
             b == ji.candidates[i + 1]
         IN  /\ C4_Score(a) = C4_Score(b)
             /\ Abs(a.cents_error) = Abs(b.cents_error)
             /\ a.complexity_score = b.complexity_score
             /\ a.p < b.p

(***************************************************************************)
(* C5.  For the ratio 3/2 the top-ranked JI candidate is 3/2, with cents   *)
(* error 0 (hence within 5 cents).                                         *)
(***************************************************************************)
C5_FifthIsTop ==
    (ji.pc # "call" /\ ji.log_ratio = Log2Int(3) - Log2Int(2)) =>
      /\ Len(ji.candidates) = 10
      /\ ji.candidates[1].p = 3
      /\ ji.candidates[1].q = 2
      /\ ji.candidates[1].cents_error = 0
      /\ Abs(ji.candidates[1].cents_error) < 5 * 84

C5_WitnessFifth ==
    /\ ji.pc = "generated"
    /\ ji.log_ratio = Log2Int(3) - Log2Int(2)
    /\ ji.candidates[1].label = "3/2"

(***************************************************************************)
(* C7.  Window Selector: for a non-empty waveform it always returns, with  *)
(* 0 <= start < end <= n.  When n exceeds the 0.20 s lead-in, start is at  *)
(* or after the lead-in and end - start = min(1.00 s, n - lead-in); when   *)
(* the lead-in consumes the whole signal the result is (0, n) with a note. *)
(***************************************************************************)
C7_WindowBounds ==
    /\ win.pc \in {"call", "loop"} => ENABLED NextWindow
    /\ win.pc = "done" =>
         LET n == win.n
             lead == win.sr \div 5
             r == win.result
         IN  /\ 0 <= r.start /\ r.start < r.end /\ r.end <= n
             /\ n > lead =>
                  /\ r.start >= lead
                  /\ r.end - r.start = (IF win.sr < n - lead THEN win.sr ELSE n - lead)
             /\ n <= lead =>
                  /\ r.start = 0 /\ r.end = n
                  /\ r.note # ""

\* A window shorter than the 0.40 s floor, returned at the real sample rate.
C7_WitnessShort ==
    /\ win.pc = "done"
    /\ win.sr = 48000
    /\ win.n > win.sr \div 5
    /\ 5 * (win.result.end - win.result.start) < 2 * win.sr
    /\ win.result.note # ""

(***************************************************************************)
(* C6.  Pitch Tracker: it raises exactly when the lag bounds are           *)
(* degenerate (lmax <= lmin) or no analysed frame has positive zero-lag    *)
(* autocorrelation; it never returns an empty or zero estimate.  An input  *)
(* shorter than one frame is padded to exactly one frame and analysed as   *)
(* one frame, with a note.                                                 *)
(***************************************************************************)
C6_Degenerate(sr) ==
    LET frame_size == IF (46 * sr) \div 1000 > 1024 THEN (46 * sr) \div 1000 ELSE 1024
        lmin == IF sr \div 2000 > 1 THEN sr \div 2000 ELSE 1
        ceil40 == IF sr % 40 = 0 THEN sr \div 40 ELSE sr \div 40 + 1
        lmax == IF ceil40 < frame_size - 1 THEN ceil40 ELSE frame_size - 1
    IN  lmax <= lmin

C6_Short(sr, n) ==
    n < (IF (46 * sr) \div 1000 > 1024 THEN (46 * sr) \div 1000 ELSE 1024)

C6_TrackerErrors ==
    /\ trk.pc \in {"call", "loop"} => ENABLED NextTracker
    /\ trk.pc = "raised" =>
         \/ C6_Degenerate(trk.sr)
         \/ (trk.ac0s # <<>> /\ \A i \in 1..Len(trk.ac0s) : trk.ac0s[i] <= 0)
    /\ trk.pc = "returned" =>
         /\ ~C6_Degenerate(trk.sr)
         /\ \E i \in 1..Len(trk.ac0s) : trk.ac0s[i] > 0
         /\ trk.f0s # <<>>
         /\ Len(trk.confs) = Len(trk.f0s)
         /\ \A i \in 1..Len(trk.f0s) : trk.f0s[i].n > 0 /\ trk.f0s[i].d > 0
         /\ C6_Short(trk.sr, trk.n) =>
              /\ Len(trk.ac0s) = 1
              /\ trk.size = trk.meta.frame_size
              /\ trk.meta.notes # <<>>
    /\ (trk.pc = "raised" /\ ~C6_Degenerate(trk.sr) /\ C6_Short(trk.sr, trk.n))
         => Len(trk.ac0s) = 1

\* An input one sample short of a frame is padded, analysed as one frame and
\* gives an estimate.
C6_WitnessPadded ==
    /\ trk.pc = "returned"
    /\ C6_Short(trk.sr, trk.n)
    /\ Len(trk.f0s) = 1
    /\ trk.meta.notes # <<>>

(***************************************************************************)
(* C8.  Partial Analyzer output shape, in the prominence branch and in the *)
(* fallback branch: at most 60 peaks, in non-increasing magnitude          *)
(* (rel_amp_db non-increasing and <= 0), every peak_confidence in [0, 1],  *)
(* and the summary is exactly the first min(12, length) peaks.             *)
(***************************************************************************)
C8_PartialsShape ==
    par.pc = "done" =>
      LET peaks == par.result.peaks
          summary == par.result.summary
      IN  /\ Len(peaks) <= 60
          /\ \A i \in 1..Len(peaks) :
               /\ peaks[i].rel_amp_db <= 0
               /\ i < Len(peaks) => peaks[i].rel_amp_db >= peaks[i + 1].rel_amp_db
               /\ 0 <= peaks[i].peak_confidence.n
               /\ peaks[i].peak_confidence.d > 0
               /\ peaks[i].peak_confidence.n <= peaks[i].peak_confidence.d
          /\ Len(summary) = (IF Len(peaks) < 12 THEN Len(peaks) ELSE 12)
          /\ \A i \in 1..Len(summary) : summary[i] = peaks[i]

\* More than 60 prominent peaks of unequal height were found and cut to 60.
C8_WitnessCapped ==
    /\ par.pc = "done"
    /\ par.result.branch = "prominence"
    /\ Len(par.result.peaks) = 60
    /\ Cardinality(LocalMaxima(par.mag_db)) > 60
    /\ par.result.peaks[1].rel_amp_db > par.result.peaks[60].rel_amp_db

(***************************************************************************)
(* C9.  A bar has an EDO interpretation exactly when its instrument is of  *)
(* the EDO family.  When present, step is the integer nearest to           *)
(* edo * log2(within_octave_ratio), target_ratio is 2^(step/edo), the      *)
(* cents error is 1200 * log2(within_octave_ratio / target_ratio) and      *)
(* octave is the bar's octave_abs; an EDO-5 bar at exactly 2^(2/5) gets    *)
(* step 2 and cents error 0.                                               *)
(***************************************************************************)
C9_EdoInterpretation ==
    edo.pc = "tuned" =>
      LET e == edo.edo_interpretation
          family == edo.instrument_id \in {"edo5", "edo7", "edo8", "edo9"}
          n_edo == CHOOSE n \in {5, 7, 8, 9, 0} :
                   edo.instrument_id = (IF n = 0 THEN "harmonic" ELSE "edo" \o ToString(n))
      IN  /\ family <=> "step" \in DOMAIN e
          /\ ~family <=> edo.instrument_id = "harmonic"
          /\ family =>
               /\ e.edo = n_edo
               /\ 2 * Abs(n_edo * edo.log_within - e.step * UnitsPerOctave) <= UnitsPerOctave
               /\ n_edo * e.target_ratio = e.step * UnitsPerOctave
               /\ e.cents_error_from_target = edo.log_within - e.target_ratio
               /\ e.octave = edo.octave_abs
               /\ (n_edo = 5 /\ 5 * edo.log_within = 2 * UnitsPerOctave) =>
                    e.step = 2 /\ e.cents_error_from_target = 0

\* An EDO-5 bar at exactly 2^(2/5) has been interpreted.
C9_WitnessTwoFifths ==
    /\ edo.pc = "tuned"
    /\ edo.instrument_id = "edo5"
    /\ 5 * edo.log_within = 2 * UnitsPerOctave
    /\ edo.edo_interpretation.step = 2

(***************************************************************************)
(* C2.  Register invariant: once Tuning Inference has handled a bar, its   *)
(* octave_abs is an integer, 1 <= within_octave_ratio < 2, and             *)
(* f0 = f_ref * 2^octave_abs * within_octave_ratio, f_ref being the        *)
(* reference f0 of the corpus.                                             *)
(***************************************************************************)
RECURSIVE C2_TwoTo(_)
C2_TwoTo(k) == IF k <= 0 THEN 1 ELSE 2 * C2_TwoTo(k - 1)

C2_Register(bar, f_ref) ==
    LET o == bar.register.octave_abs
        w == bar.register.within_octave_ratio
        f0 == bar.f0.f0_hz
    IN  /\ o \in Int
        /\ w.d > 0
        /\ w.d <= w.n
        /\ w.n < 2 * w.d
        \* f0 = f_ref * 2^o * w, cross-multiplied
        /\ f0.n * f_ref.d * w.d * C2_TwoTo(-o) = f_ref.n * w.n * f0.d * C2_TwoTo(o)

C10_Files == Len(bld.entries[1]) + Len(bld.entries[2]) + Len(bld.entries[3])
               + Len(bld.entries[4]) + Len(bld.entries[5])

C10_HasResults(bar) ==
    \/ bar.global_order_index # 0
    \/ bar.register # [octave_abs |-> 0, within_octave_ratio |-> Rat(1, 1)]
    \/ "step" \in DOMAIN bar.edo_interpretation
    \/ bar.ji.ji_candidates # <<>>
    \/ "p" \in DOMAIN bar.ji.ji_primary

C10_Instruments == <<"edo5", "edo7", "edo8", "edo9", "harmonic">>
C10_Place(instrument_id) == CHOOSE i \in 1..5 : C10_Instruments[i] = instrument_id

C10_Before(a, b) ==
    LET fa == a.f0.f0_hz
        fb == b.f0.f0_hz
    IN  \/ fa.n * fb.d < fb.n * fa.d
        \/ /\ fa.n * fb.d = fb.n * fa.d
           /\ \/ C10_Place(a.instrument_id) < C10_Place(b.instrument_id)
              \/ /\ a.instrument_id = b.instrument_id
                 /\ a.position_index < b.position_index

C10_TwoPhase ==
    LET bars == bld.bars
        N == Len(bars)
        All == 1..N
    IN  /\ ((\E k \in All : C10_HasResults(bars[k])) \/ bld.qc_entries # <<>>)
             => N = C10_Files /\ bld.pc \in {"tuning", "written"}
        /\ bld.pc = "failed" => bld.written = <<>>
        /\ bld.pc \in {"tuning", "written"} =>
             /\ \A k \in All : RatLeq(bld.f_ref, bars[k].f0.f0_hz)
             /\ \E k \in All :
                  /\ bld.f_ref = bars[k].f0.f0_hz
                  /\ \A j \in All : ~C10_Before(bars[j], bars[k])
             /\ Len(bld.qc_entries) = Cardinality({k \in All : C10_HasResults(bars[k])})
        /\ bld.pc = "written" =>
             /\ {bars[k].global_order_index : k \in All} = All
             /\ \A j, k \in All :
                  /\ C10_Before(bars[j], bars[k])
                       => bars[j].global_order_index < bars[k].global_order_index
                  /\ bars[j].global_order_index <= bars[k].global_order_index
                       => RatLeq(bars[j].f0.f0_hz, bars[k].f0.f0_hz)
             /\ \A i \in All : bld.written[i].global_order_index = i

\* A corpus of six bars has been written whose sort moved a bar of the first
\* folder behind a bar of a later one, two bars of different instruments
\* sharing their f0.
C10_WitnessResorted ==
    /\ bld.pc = "written"
    /\ Len(bld.bars) = 6
    /\ \E j, k \in 1..Len(bld.bars) :
         /\ j < k
         /\ bld.bars[j].global_order_index > bld.bars[k].global_order_index
    /\ \E j, k \in 1..Len(bld.bars) :
         /\ bld.bars[j].instrument_id # bld.bars[k].instrument_id
         /\ bld.bars[j].f0.f0_hz = bld.bars[k].f0.f0_hz

(***************************************************************************)
(* C12.  Pitch Tracker lag restriction.                                    *)
(***************************************************************************)
\* C12: with non-degenerate bounds every selected lag L satisfies
\* sr / max_hz <= L <= sr / min_hz, so every per-frame estimate sr / L lies
\* within [MIN_F0_HZ, MAX_F0_HZ].
C12_LagRestriction ==
    trk.pc \in {"loop", "returned"} =>
      /\ trk.pc = "loop" =>
           \A i \in 1..Len(trk.lags) :
             /\ trk.sr <= trk.lags[i] * MAX_F0_HZ
             /\ trk.lags[i] * MIN_F0_HZ <= trk.sr
      /\ \A i \in 1..Len(trk.f0s) :
           /\ MIN_F0_HZ * trk.f0s[i].d <= trk.f0s[i].n
           /\ trk.f0s[i].n <= MAX_F0_HZ * trk.f0s[i].d

(***************************************************************************)
(* C13.  Partial Analyzer fallback.                                        *)
(***************************************************************************)
\* The hz of bin i of mag_db (bins at or above 20 Hz), as analyze_partials
\* computes it.
C13_BinHz(i) ==
    LET fft_n == FftSize(par.n)
    IN  Rat((FirstValidBin(par.sr, fft_n) + i - 1) * par.sr, fft_n)

\* C13: when no peak reaches the 15 dB prominence, the analyzer returns the
\* N = min(60, available bins) bins of largest magnitude among the bins at or
\* above 20 Hz, and every returned peak has peak_confidence 1.0.
C13_Fallback ==
    (par.pc = "done" /\ par.result.branch = "fallback") =>
      LET peaks == par.result.peaks
          m == Len(par.mag_db)
          returned == {i \in 1..m : \E j \in 1..Len(peaks) : peaks[j].hz = C13_BinHz(i)}
      IN  /\ Len(peaks) = Min2(MAX_PEAKS, m)
          /\ Cardinality(returned) = Len(peaks)
          /\ \A i \in returned : \A k \in (1..m) \ returned :
               par.mag_db[i] >= par.mag_db[k]
          /\ \A j \in 1..Len(peaks) : peaks[j].hz.n >= 20 * peaks[j].hz.d
          /\ \A j \in 1..Len(peaks) : RatEq(peaks[j].peak_confidence, Rat(1, 1))

(***************************************************************************)
(* C14.  Octave Corrector candidate choice.                                *)
(***************************************************************************)
\* The candidate at the head of the sorted list and the three scored ones.
C14_Chosen == BestScored(oc.preliminary_f0_hz, oc.summary_peaks)
C14_Scored == Scored(oc.preliminary_f0_hz, oc.summary_peaks)
C14_Tied(a, b) == RatEq(a.fit, b.fit) /\ a.in_range = b.in_range

\* C14 as stated: among f0, f0/2 and 2*f0 the chosen candidate maximizes the
\* harmonic-grid fit; among candidates of equal fit one inside [40, 2000] Hz
\* is preferred; among candidates still tied the one with the larger octave
\* shift from the preliminary f0 is chosen.
C14_LargerShiftChosen ==
    oc.pc = "done" =>
      \A i \in 1..3 :
        LET c == C14_Scored[i]
            b == C14_Chosen
        IN  /\ RatLeq(c.fit, b.fit)
            /\ (RatEq(c.fit, b.fit) /\ c.in_range) => b.in_range
            /\ C14_Tied(b, c) => b.cents_shift >= c.cents_shift

\* C14 as amended: the fit and the range are preferred as stated; among
\* candidates still tied the one with the smaller octave shift is chosen,
\* which is the preliminary f0 itself (f0/2 and 2*f0, whose shifts are equal,
\* are never left to tie at the head of the list).
C14_SmallerShiftChosen ==
    oc.pc = "done" =>
      \A i \in 1..3 :
        LET c == C14_Scored[i]
            b == C14_Chosen
        IN  /\ RatLeq(c.fit, b.fit)
            /\ (RatEq(c.fit, b.fit) /\ c.in_range) => b.in_range
            /\ C14_Tied(b, c) => b.cents_shift <= c.cents_shift
            /\ (C14_Tied(b, c) /\ b.cand # c.cand) =>
                 (b.cents_shift < c.cents_shift /\ b.cand = oc.preliminary_f0_hz)

\* The preliminary f0 ties with an octave candidate in a positive fit and in
\* range, and is chosen.
C14_WitnessTieOnShift ==
    /\ oc.pc = "done"
    /\ C14_Chosen.cand = oc.preliminary_f0_hz
    /\ \E i \in 2..3 : C14_Tied(C14_Chosen, C14_Scored[i])
    /\ C14_Chosen.fit.n > 0

(***************************************************************************)
(* C15.  Window Selector choice.                                           *)
(***************************************************************************)
\* The selector returned after evaluating at least one candidate.
C15_Chose == win.pc = "done" /\ "cands" \in DOMAIN win /\ win.cands >= 1

\* The returned window is one of the candidates whose variance is within
\* 1e-12 of the minimum over all candidates, and the latest-starting of them.
C15_LatestOfMinimum ==
    /\ <<win.best_var, win.result.start>> \in win.near
    /\ \A c \in win.near : c[2] <= win.result.start

\* C15 as stated: over all candidate starts the returned window has the
\* minimum variance of per-frame RMS energy, and among the candidates whose
\* variance equals that minimum within 1e-12 it is the latest-starting one,
\* for every sequence of candidate variances.
C15_MinimumVariance ==
    C15_Chose => C15_LatestOfMinimum

\* C15 as amended: the returned window is the last candidate that replaced the
\* running best, which a candidate does when its variance is more than 1e-12
\* below the best's or within 1e-12 of it.  Its variance exceeds the minimum
\* by at most 1e-12 for each candidate after the first; when it is within
\* 1e-12 of the minimum, the returned window is the latest-starting
\* candidate among those within 1e-12 of the minimum.  With no candidate
\* evaluated the window starts at the lead-in.
C15_RunningBest ==
    /\ C15_Chose =>
         /\ win.min_var <= win.best_var
         /\ win.best_var - win.min_var <= (win.cands - 1) * VAR_EPS
         /\ win.best_var - win.min_var < VAR_EPS => C15_LatestOfMinimum
    /\ (win.pc = "done" /\ "cands" \in DOMAIN win /\ win.cands = 0) =>
         win.result.start = win.start_idx

\* Successive candidates each within 1e-12 of the one before carried the best
\* away from the minimum: the returned variance is 1e-12 or more above it.
C15_WitnessDrift ==
    /\ C15_Chose
    /\ win.cands >= 3
    /\ win.best_var - win.min_var >= VAR_EPS

(***************************************************************************)
(* C16.  Direction of octave correction.                                   *)
(***************************************************************************)
C16_FitAt(c) == harmonic_grid_fit_score(oc.summary_peaks, c)

\* C16: the harmonic-grid fit at c/2 is at least the fit at c for the
\* candidates c of every peak list, so fit(f0/2) >= fit(f0) >= fit(2*f0);
\* every accepted correction is a halving (corrected_f0_hz is
\* original_f0_hz / 2) and the doubled candidate is never returned.
C16_HalvingOnly ==
    oc.pc = "done" =>
      LET p == oc.preliminary_f0_hz
          r == oc.result
      IN  /\ \A c \in {RatDouble(p), p, RatHalf(p)} :
               RatLeq(C16_FitAt(c), C16_FitAt(RatHalf(c)))
          /\ r.correction # NoCorrection =>
               /\ r.correction.original_f0_hz = p
               /\ r.correction.corrected_f0_hz = RatHalf(p)
               /\ r.f0_hz = RatHalf(p)
          /\ ~RatEq(r.f0_hz, RatDouble(p))

\* A halving was accepted where the three fits differ, with a peak that is
\* off the harmonic grid among those aligned.
C16_WitnessHalved ==
    /\ oc.pc = "done"
    /\ oc.result.correction # NoCorrection
    /\ RatLess(C16_FitAt(RatDouble(oc.preliminary_f0_hz)), C16_FitAt(oc.preliminary_f0_hz))
    /\ RatLess(C16_FitAt(oc.preliminary_f0_hz), C16_FitAt(RatHalf(oc.preliminary_f0_hz)))
    /\ \E i \in 1..Len(oc.summary_peaks) : oc.summary_peaks[i] \in {202, 927}

(***************************************************************************)
(* C17.  Frame of an octave correction on the F0Estimate.                  *)
(***************************************************************************)
\* C17: an accepted correction replaces only f0_hz and attaches the correction
\* record; the distribution statistics stay those of the per-frame estimates:
\* in every bar record min_hz <= median_hz <= max_hz, and median_hz is the
\* median of the per-frame f0 (the original_f0_hz of a correction record).
C17_DistributionKept ==
    \A k \in 1..Len(bld.bars) :
      LET f0 == bld.bars[k].f0
          dist == f0.f0_distribution
      IN  /\ RatLeq(dist.min_hz, dist.median_hz)
          /\ RatLeq(dist.median_hz, dist.max_hz)
          /\ f0.f0_corrections # NoCorrection =>
               RatEq(dist.median_hz, f0.f0_corrections.original_f0_hz)

(***************************************************************************)
(* C18.  EDO step range.                                                   *)
(***************************************************************************)
\* An EDO-family bar was tuned.
C18_Tuned == edo.pc = "tuned" /\ IsEdoFamily(edo.instrument_id)

\* |cents_error_from_target| <= 600 / edo, at 84 units to the cent.
C18_ErrorBound ==
    edo.edo_interpretation.edo * Abs(edo.edo_interpretation.cents_error_from_target)
        <= 600 * 84

\* C18 as stated: for every EDO-family bar and every within_octave_ratio in
\* [1, 2) the emitted step satisfies 0 <= step <= edo - 1 (step = edo, that is
\* target_ratio = 2, is never emitted), and |cents_error_from_target| <= 600/edo.
C18_StepBelowEdo ==
    C18_Tuned =>
      /\ 0 <= edo.edo_interpretation.step
      /\ edo.edo_interpretation.step <= edo.edo_interpretation.edo - 1
      /\ C18_ErrorBound

\* C18 as amended: 0 <= step <= edo; step = edo (target_ratio = 2) is emitted
\* when edo * log2(within_octave_ratio) rounds to edo, as it does for every
\* ratio above 2^(1 - 1/(2 edo)) and for none below; and
\* |cents_error_from_target| <= 600/edo.
C18_StepUpToEdo ==
    C18_Tuned =>
      LET e == edo.edo_interpretation
          twice == 2 * e.edo * edo.log_within
          midpoint == (2 * e.edo - 1) * UnitsPerOctave
      IN  /\ 0 <= e.step
          /\ e.step <= e.edo
          /\ twice > midpoint => e.step = e.edo
          /\ twice < midpoint => e.step < e.edo
          /\ e.step = e.edo => e.target_ratio = UnitsPerOctave
          /\ C18_ErrorBound

\* A within_octave_ratio below 2 whose nearest step is the octave itself.
C18_WitnessStepIsEdo ==
    /\ C18_Tuned
    /\ edo.log_within < UnitsPerOctave
    /\ edo.edo_interpretation.step = edo.edo_interpretation.edo
    /\ edo.edo_interpretation.cents_error_from_target < 0

====
